---- MODULE Spec2Model ----
(***************************************************************************)
(* A model of the hcsr04_async driver (src/src/lib.rs): the async          *)
(* measure() operation of Hcsr04, its two helpers distance() and           *)
(* speed_of_sound_temperature_adjusted(), and the environment it runs in   *)
(* (the echo line, the trigger line, the clock and the executor).          *)
(*                                                                         *)
(* Time is counted in microseconds (one embassy tick).  measure() is an    *)
(* async fn: each stretch of code between two .await points runs as one    *)
(* atomic step when the executor polls the task, so the model has one      *)
(* action per poll: Call (first poll, up to the 10 us Timer), PollHold     *)
(* (after the Timer), PollRise and PollFall (after each with_timeout).     *)
(* A poll that finds its future ready runs on into the next stretch of     *)
(* code, as the generated state machine does.                              *)
(*                                                                         *)
(* f64 values are modelled as tagged fixed-point numbers:                  *)
(*   <<"fin", n>>  a finite value, n in the unit of the quantity           *)
(*   <<"nan", 0>>  NaN                                                     *)
(*   <<"inf", s>>  +infinity (s = 1) or -infinity (s = -1)                 *)
(* Units: temperatures in 1/100 degree, speeds in cm/s (1/100 m/s),        *)
(* durations in microseconds, distances in 1/100 of the distance unit.     *)
(* Every finite operation rounds once, downwards.                          *)
(***************************************************************************)
EXTENDS Integers, Sequences, FiniteSets, TLC

VARIABLES
    config,     \* Hcsr04.config: [distance_unit, temperature_unit]
    now,        \* the time source (Instant::now()), in microseconds
    echo,       \* level of the echo line: TRUE is high
    trigger,    \* level of the trigger line: TRUE is high
    task,       \* the measure() future: its position, locals and result
    calls,      \* calls of measure() made so far
    lowFailed,  \* history: a set_low() of the trigger pin has returned Err
    last        \* history: did the previous call of measure() time out
                \* waiting for the echo line to go low

vars == <<config, now, echo, trigger, task, calls, lowFailed, last>>

-----------------------------------------------------------------------------
(* Bounds of the model *)

\* the longest time, in microseconds, that other tasks keep the executor
\* from polling the task once it was woken
MaxLatency == 1
\* the number of calls of measure() in a run
MaxCalls == 2

(* No instant recorded yet. *)
NoTime == 0 - 1

-----------------------------------------------------------------------------
(* Program constants *)

\* Duration::from_micros(10), the trigger pulse width
HOLD_US == 10
\* Duration::from_secs(2) of the wait for the echo pin to go high
RISE_TIMEOUT_US == 2000000
\* Duration::from_secs(2) of the wait for the echo pin to go low
FALL_TIMEOUT_US == 2000000
\* Timer::after(Duration::from_secs(1)) of the caller's loop
SLEEP_US == 1000000

ERR_ECHO_HIGH == "Echo pin is already high"
ERR_RISE_TIMEOUT == "Timeout waiting for echo pin to go high"
ERR_FALL_TIMEOUT == "Timeout waiting for echo pin to go low"

-----------------------------------------------------------------------------
(* f64 arithmetic *)

NaN == <<"nan", 0>>
PosInf == <<"inf", 1>>
NegInf == <<"inf", -1>>
Fin(n) == <<"fin", n>>
IsFin(x) == x[1] = "fin"
IsNaN(x) == x[1] = "nan"
IsInf(x) == x[1] = "inf"

\* x <= y of f64: false when either side is NaN
Leq(x, y) ==
    /\ ~IsNaN(x)
    /\ ~IsNaN(y)
    /\ \/ x = y
       \/ x = NegInf
       \/ y = PosInf
       \/ IsFin(x) /\ IsFin(y) /\ x[2] <= y[2]

\* floor(a * b / c) for a, b >= 0 and c > 0, computed so that no intermediate
\* value leaves 32 bits
MulDivFloor(a, b, c) == a * (b \div c) + (a * (b % c)) \div c

RECURSIVE SqrtSearch(_, _, _)
SqrtSearch(n, lo, hi) ==
    IF lo >= hi THEN lo
    ELSE LET mid == (lo + hi + 1) \div 2
         IN IF mid * mid <= n THEN SqrtSearch(n, mid, hi)
            ELSE SqrtSearch(n, lo, mid - 1)

\* floor(sqrt(n)) for 0 <= n < 2^31
ISqrt(n) == SqrtSearch(n, 0, 46340)

-----------------------------------------------------------------------------
(* Configuration *)

DistanceUnit == {"Centimeters", "Inches"}
TemperatureUnit == {"Celsius", "Fahrenheit"}
Config == [distance_unit : DistanceUnit, temperature_unit : TemperatureUnit]

(* The temperatures passed to measure(), in 1/100 degree: 24 (the          *)
(* example's), one below absolute zero in either unit, and f64::INFINITY.  *)
Temperatures == {Fin(2400), Fin(-50000), PosInf}

-----------------------------------------------------------------------------
(* The Distance Calculator *)

\* (mutant) a Fahrenheit temperature is used as if it were in Celsius
C12_mut_ToCelsius(cfg, temperature) == temperature

\* the match on config.temperature_unit: the temperature in Celsius
ToCelsius(cfg, temperature) ==
    IF cfg.temperature_unit = "Celsius" THEN temperature
    ELSE IF IsFin(temperature)
         THEN Fin(((temperature[2] - 3200) * 5) \div 9)
         ELSE temperature

\* 331.5 * sqrt(1.0 + (temp / 273.15)), in cm/s
SqrtModel(temp) ==
    CASE IsNaN(temp) -> NaN
      [] IsInf(temp) -> IF temp[2] > 0 THEN PosInf ELSE NaN
      [] OTHER -> IF 27315 + temp[2] < 0 THEN NaN
                  ELSE Fin(ISqrt(MulDivFloor(27315 + temp[2], 33150 * 33150, 27315)))

speed_of_sound_temperature_adjusted(cfg, temperature) ==
    SqrtModel(ToCelsius(cfg, temperature))

\* (mutant) the 10 us of the trigger pulse are counted into the duration
C10_mut_RawDistance(speed_of_sound, duration_us) ==
    IF speed_of_sound[1] = "fin" /\ speed_of_sound[2] >= 0
    THEN <<"fin", MulDivFloor(speed_of_sound[2], duration_us + 10, 20000)>>
    ELSE speed_of_sound

\* (speed_of_sound * 100.0 * duration_secs) / 2.0, in 1/100 cm, for a
\* duration of duration_us microseconds (duration_us >= 0)
RawDistance(speed_of_sound, duration_us) ==
    CASE IsNaN(speed_of_sound) -> NaN
      [] IsInf(speed_of_sound) ->
            IF duration_us = 0 THEN NaN ELSE speed_of_sound
      [] OTHER ->
            IF speed_of_sound[2] >= 0
            THEN Fin(MulDivFloor(speed_of_sound[2], duration_us, 20000))
            ELSE Fin(-MulDivFloor(-speed_of_sound[2], duration_us, 20000))

\* (mutant) the centimeter value is multiplied by 2.54
C11_mut_ToInches(d) ==
    IF d[1] = "fin" /\ d[2] >= 0 THEN <<"fin", (d[2] * 254) \div 100>> ELSE d

\* distance / 2.54
ToInches(d) ==
    IF IsFin(d)
    THEN IF d[2] >= 0 THEN Fin((d[2] * 100) \div 254)
         ELSE Fin(-(((-d[2]) * 100) \div 254))
    ELSE d

\* (mutant) the duration is kept in 13 bits and wraps around
C13_mut_distance(cfg, speed_of_sound, duration_us) ==
    IF cfg.distance_unit = "Centimeters"
    THEN RawDistance(speed_of_sound, duration_us % 8192)
    ELSE ToInches(RawDistance(speed_of_sound, duration_us % 8192))

distance(cfg, speed_of_sound, duration_us) ==
    IF cfg.distance_unit = "Centimeters"
    THEN RawDistance(speed_of_sound, duration_us)
    ELSE ToInches(RawDistance(speed_of_sound, duration_us))

-----------------------------------------------------------------------------
(* The measure() future *)

Order == <<"check", "set_high", "hold", "set_low", "rise_wait", "fall_wait", "calc">>

NoResult == [kind |-> "none", err |-> "", value |-> Fin(0)]
Ok(v) == [kind |-> "Ok", err |-> "", value |-> v]
Err(msg) == [kind |-> "Err", err |-> msg, value |-> Fin(0)]

(* pc: "idle" before the first call; "hold", "rise_wait", "fall_wait" while *)
(* suspended at the corresponding .await; "done" once the call returned;   *)
(* "panicked" once the call unwound.  steps lists what the call has done.  *)
(* The fields below result are history: when each wait began, the first    *)
(* instant within it at which the echo line had the awaited level, whether *)
(* the pin's wait future ended with a pin error, the level the            *)
(* precondition check read, when the call returned, and for how long the   *)
(* task has been woken without being polled.  riseBy tells what made       *)
(* wait_for_high ready: "level" (the line was high when the future was     *)
(* first polled) or "edge" (the line went high while it was pending).      *)
NewTask(temperature) ==
    [pc |-> "idle", temperature |-> temperature, steps |-> <<>>,
     holdDeadline |-> NoTime, riseDeadline |-> NoTime, fallDeadline |-> NoTime,
     start |-> NoTime, end |-> NoTime, duration |-> NoTime,
     result |-> NoResult,
     riseBegan |-> NoTime, riseSeenAt |-> NoTime, riseErr |-> FALSE,
     riseBy |-> "none",
     fallBegan |-> NoTime, fallSeenAt |-> NoTime, fallErr |-> FALSE,
     echoAtCall |-> FALSE, returnedAt |-> NoTime, lag |-> 0]

\* how a call ended, as far as the next call could be concerned: with the
\* echo line possibly still high (the fall timeout), or otherwise
Outcome(res) == IF res = Err(ERR_FALL_TIMEOUT) THEN "fall_timeout" ELSE "other"

Did(t, step) == [t EXCEPT !.steps = Append(@, step)]

\* return Err(msg) / return Ok(v)
Return(t, res) == [t EXCEPT !.pc = "done", !.result = res, !.returnedAt = now]

\* (mutant) the start timestamp is taken before the rise wait, not after it
C7_mut_StartTimestamp(t) == t.riseBegan

\* Ok(_) => Instant::now() of line 104, taken when the task resumes
StartTimestamp(t) == now

\* (mutant) the end timestamp is taken before the fall wait, not after it
C15_mut_EndTimestamp(t) == t.fallBegan

\* Ok(_) => Instant::now() of line 110, taken when the task resumes
EndTimestamp(t) == now

\* (mutant) the precondition check is missing
C1_mut_EchoAlreadyHigh(level) == FALSE

\* self.echo.is_high().ok().unwrap() of the precondition check, given the
\* level the pin read
EchoAlreadyHigh(level) == level

\* (mutant) the pin future is awaited without a timeout
C2_mut_WaitOutcome(seenAt, pinErr, deadline) ==
    IF seenAt # NoTime \/ pinErr THEN "ready" ELSE "pending"

(* What `with_timeout(d, fut).await` finds when polled: the pin future is  *)
(* polled first and wins when it is ready (the awaited level was seen, or  *)
(* the pin failed: Ok(_) matches either), then the timer.                  *)
WaitOutcome(seenAt, pinErr, deadline) ==
    IF seenAt # NoTime \/ pinErr THEN "ready"
    ELSE IF now >= deadline THEN "timeout"
    ELSE "pending"

RiseOutcome(t) == WaitOutcome(t.riseSeenAt, t.riseErr, t.riseDeadline)
FallOutcome(t) == WaitOutcome(t.fallSeenAt, t.fallErr, t.fallDeadline)

\* the deadline of with_timeout(Duration::from_secs(2), ..) created now
RiseDeadline(t) == now + RISE_TIMEOUT_US

\* (mutant) one deadline for both waits: the fall wait gets what the rise
\* wait left of its budget
C5_mut_FallDeadline(t) == t.riseDeadline

FallDeadline(t) == now + FALL_TIMEOUT_US

\* (mutant) the subtraction is the wrong way round: start - end
C16_mut_Calculate(t) ==
    LET d == t.start - t.end
    IN Return([Did(t, "calc") EXCEPT !.duration = d],
              Ok(distance(config,
                          speed_of_sound_temperature_adjusted(config, t.temperature),
                          d)))

\* lines 114-119: the distance calculation
Calculate(t) ==
    LET d == t.end - t.start
    IN Return([Did(t, "calc") EXCEPT !.duration = d],
              Ok(distance(config,
                          speed_of_sound_temperature_adjusted(config, t.temperature),
                          d)))

\* (mutant) the fall wait is tried again after a timeout
C8_mut_OnFallTimeout(t) ==
    [Did(t, "fall_wait") EXCEPT !.fallDeadline = now + FALL_TIMEOUT_US]

\* Err(_) => return Err("Timeout waiting for echo pin to go low")
OnFallTimeout(t) == Return(t, Err(ERR_FALL_TIMEOUT))

\* lines 109-112, polled
ContinueFall(t) ==
    CASE FallOutcome(t) = "ready" -> Calculate([t EXCEPT !.end = EndTimestamp(t)])
      [] FallOutcome(t) = "timeout" -> OnFallTimeout(t)
      [] OTHER -> t

\* line 109: the fall wait is created and polled for the first time
BeginFallWait(t) ==
    ContinueFall([Did(t, "fall_wait") EXCEPT
                    !.pc = "fall_wait",
                    !.fallBegan = now,
                    !.fallDeadline = FallDeadline(t),
                    !.fallSeenAt = IF echo THEN NoTime ELSE now])

\* (mutant) the timeout of the rise wait is dropped and the call goes on
C6_mut_OnRiseTimeout(t) == BeginFallWait([t EXCEPT !.start = now])

\* Err(_) => return Err("Timeout waiting for echo pin to go high")
OnRiseTimeout(t) == Return(t, Err(ERR_RISE_TIMEOUT))

\* lines 103-106, polled
ContinueRise(t) ==
    CASE RiseOutcome(t) = "ready" -> BeginFallWait([t EXCEPT !.start = StartTimestamp(t)])
      [] RiseOutcome(t) = "timeout" -> OnRiseTimeout(t)
      [] OTHER -> t

\* (mutant) the rise wait is wait_for_rising_edge: a line that is high
\* already does not make it ready
C14_mut_BeginRiseWait(t) ==
    [Did(t, "rise_wait") EXCEPT
        !.pc = "rise_wait",
        !.riseBegan = now,
        !.riseDeadline = now + RISE_TIMEOUT_US]

\* line 103: the rise wait is created and polled for the first time;
\* wait_for_high is ready at once when the line is high
BeginRiseWait(t) ==
    ContinueRise([Did(t, "rise_wait") EXCEPT
                    !.pc = "rise_wait",
                    !.riseBegan = now,
                    !.riseDeadline = RiseDeadline(t),
                    !.riseSeenAt = IF echo THEN now ELSE NoTime,
                    !.riseBy = IF echo THEN "level" ELSE "none"])

\* self.trigger.set_high().ok() / set_low().ok(): the level of the trigger
\* line after the call; a failed call leaves the line as it was
Drive(level, failed) == IF failed THEN trigger ELSE level

\* (mutant) a failed drive leaves a trace in the call
C9_mut_AfterDrive(t, failed) == IF failed THEN Did(t, "drive_error") ELSE t

\* .ok() turns the Result of set_high() / set_low() into an Option that is
\* dropped: the call goes on the same way whether the drive failed or not
AfterDrive(t, failed) == t

\* (mutant) the driver remembers that the previous call timed out waiting
\* for the fall and skips the precondition check of the next call
C18_mut_CallStep(temperature, readFail, driveFail) ==
    LET t == [Did(NewTask(temperature), "check") EXCEPT !.echoAtCall = echo]
    IN IF readFail
       THEN [task |-> [t EXCEPT !.pc = "panicked"], trigger |-> trigger]
       ELSE IF echo /\ last # "fall_timeout"
       THEN [task |-> Return(t, Err(ERR_ECHO_HIGH)), trigger |-> trigger]
       ELSE [task |-> [Did(AfterDrive(Did(t, "set_high"), driveFail), "hold") EXCEPT
                         !.pc = "hold",
                         !.holdDeadline = now + HOLD_US],
             trigger |-> Drive(TRUE, driveFail)]

(* The first poll of measure(temperature), lines 93-99: the task and the   *)
(* trigger line after it.  readFail: is_high() returns Err, and unwrap()   *)
(* panics.  driveFail: set_high() returns Err.                             *)
CallStep(temperature, readFail, driveFail) ==
    LET t == [Did(NewTask(temperature), "check") EXCEPT !.echoAtCall = echo]
    IN IF readFail
       THEN [task |-> [t EXCEPT !.pc = "panicked"], trigger |-> trigger]
       ELSE IF EchoAlreadyHigh(echo)
       THEN [task |-> Return(t, Err(ERR_ECHO_HIGH)), trigger |-> trigger]
       ELSE [task |-> [Did(AfterDrive(Did(t, "set_high"), driveFail), "hold") EXCEPT
                         !.pc = "hold",
                         !.holdDeadline = now + HOLD_US],
             trigger |-> Drive(TRUE, driveFail)]

\* (mutant) the trigger line is not driven low after the hold
C17_mut_PollHoldStep(driveFail) ==
    [task |-> BeginRiseWait(Did([task EXCEPT !.lag = 0], "set_low")),
     trigger |-> trigger]

(* The poll after the Timer of line 99 fired, lines 100-103, and on if the *)
(* echo line is high already: the task and the trigger line after it.      *)
(* driveFail: set_low() returns Err.                                       *)
PollHoldStep(driveFail) ==
    [task |-> BeginRiseWait(AfterDrive(Did([task EXCEPT !.lag = 0], "set_low"),
                                       driveFail)),
     trigger |-> Drive(FALSE, driveFail)]

-----------------------------------------------------------------------------
(* Actions *)

Init ==
    /\ config \in Config
    /\ now = 0
    /\ echo \in BOOLEAN
    /\ trigger = FALSE
    /\ task = NewTask(Fin(0))
    /\ calls = 0
    /\ lowFailed = FALSE
    /\ last = Outcome(NoResult)

(* measure(temperature) is called and polled for the first time. *)
Call(temperature, readFail, driveFail) ==
    /\ task.pc = "idle"
    /\ calls < MaxCalls
    /\ calls' = calls + 1
    /\ task' = CallStep(temperature, readFail, driveFail).task
    /\ trigger' = CallStep(temperature, readFail, driveFail).trigger
    /\ UNCHANGED <<config, now, echo, lowFailed, last>>

(* The Timer of line 99 has fired and the task is polled. *)
PollHold(driveFail) ==
    /\ task.pc = "hold"
    /\ now >= task.holdDeadline
    /\ task' = PollHoldStep(driveFail).task
    /\ trigger' = PollHoldStep(driveFail).trigger
    /\ lowFailed' = (lowFailed \/ driveFail)
    /\ UNCHANGED <<config, now, echo, calls, last>>

(* The rise wait is over (edge, pin error or timeout) and the task is      *)
(* polled: lines 103-109, and on if the echo line is low already.          *)
PollRise ==
    /\ task.pc = "rise_wait"
    /\ RiseOutcome(task) # "pending"
    /\ task' = ContinueRise([task EXCEPT !.lag = 0])
    /\ UNCHANGED <<config, now, echo, trigger, calls, lowFailed, last>>

(* The fall wait is over and the task is polled: lines 109-119. *)
PollFall ==
    /\ task.pc = "fall_wait"
    /\ FallOutcome(task) # "pending"
    /\ task' = ContinueFall([task EXCEPT !.lag = 0])
    /\ UNCHANGED <<config, now, echo, trigger, calls, lowFailed, last>>

(* The echo line goes high.  The pin's wait_for_high, if one is pending,   *)
(* latches the level. *)
EchoRise ==
    /\ task.pc \in {"hold", "rise_wait", "fall_wait"}
    /\ ~echo
    /\ echo' = TRUE
    /\ task' = IF task.pc = "rise_wait" /\ task.riseSeenAt = NoTime
               THEN [task EXCEPT !.riseSeenAt = now, !.riseBy = "edge"]
               ELSE task
    /\ UNCHANGED <<config, now, trigger, calls, lowFailed, last>>

(* The echo line goes low.  The pin's wait_for_low, if one is pending,     *)
(* latches the level. *)
EchoFall ==
    /\ task.pc \in {"hold", "rise_wait", "fall_wait"}
    /\ echo
    /\ echo' = FALSE
    /\ task' = IF task.pc = "fall_wait" /\ task.fallSeenAt = NoTime
               THEN [task EXCEPT !.fallSeenAt = now]
               ELSE task
    /\ UNCHANGED <<config, now, trigger, calls, lowFailed, last>>

(* The pin's pending wait future fails with a pin error. *)
WaitFault ==
    /\ \/ /\ task.pc = "rise_wait"
          /\ ~task.riseErr
          /\ task' = [task EXCEPT !.riseErr = TRUE]
       \/ /\ task.pc = "fall_wait"
          /\ ~task.fallErr
          /\ task' = [task EXCEPT !.fallErr = TRUE]
    /\ UNCHANGED <<config, now, echo, trigger, calls, lowFailed, last>>

\* the deadline of the timer the suspended task waits on
Deadline ==
    CASE task.pc = "hold" -> task.holdDeadline
      [] task.pc = "rise_wait" -> task.riseDeadline
      [] task.pc = "fall_wait" -> task.fallDeadline
      [] OTHER -> NoTime

\* the suspended task was woken: what it awaits is ready
Woken ==
    CASE task.pc = "hold" -> now >= task.holdDeadline
      [] task.pc = "rise_wait" -> RiseOutcome(task) # "pending"
      [] task.pc = "fall_wait" -> FallOutcome(task) # "pending"
      [] OTHER -> FALSE

(* The task sleeps, and time passes until its timer expires (early = 0),   *)
(* or until one microsecond before (early = 1, in the edge waits).         *)
TimerRuns(early) ==
    /\ task.pc \in {"hold", "rise_wait", "fall_wait"}
    /\ early = 1 => task.pc # "hold"
    /\ ~Woken
    /\ now < Deadline - early
    /\ now' = Deadline - early
    /\ UNCHANGED <<config, echo, trigger, task, calls, lowFailed, last>>

(* The task was woken, and other tasks run for a microsecond before the    *)
(* executor polls it.                                                      *)
Delay ==
    /\ Woken
    /\ task.lag < MaxLatency
    /\ now' = now + 1
    /\ task' = [task EXCEPT !.lag = @ + 1]
    /\ UNCHANGED <<config, echo, trigger, calls, lowFailed, last>>

\* the instant of the k-th call of the caller's loop (k = 0, 1, ..): the
\* caller sleeps between two calls
CallEpoch(k) == k * (HOLD_US + RISE_TIMEOUT_US + FALL_TIMEOUT_US + SLEEP_US)

(* The caller has taken the result and sleeps until it calls again; the    *)
(* echo line is at either level by then.                                   *)
Sleep(level) ==
    /\ task.pc = "done"
    /\ calls < MaxCalls
    /\ task' = NewTask(Fin(0))
    /\ now' = CallEpoch(calls)
    /\ echo' = level
    /\ last' = Outcome(task.result)
    /\ UNCHANGED <<config, trigger, calls, lowFailed>>

Next ==
    \/ \E temperature \in Temperatures, readFail, driveFail \in BOOLEAN :
          Call(temperature, readFail, driveFail)
    \/ \E driveFail \in BOOLEAN : PollHold(driveFail)
    \/ PollRise
    \/ PollFall
    \/ EchoRise
    \/ EchoFall
    \/ WaitFault
    \/ \E early \in {0, 1} : TimerRuns(early)
    \/ Delay
    \/ \E level \in BOOLEAN : Sleep(level)

Spec == Init /\ [][Next]_vars

(* One call of measure, for one configuration, one temperature and a      *)
(* trigger pin that can be driven (none of them has a part in whether a    *)
(* call ends: the result of set_high / set_low is dropped; every call      *)
(* starts from the same task state, whatever the echo level), with what    *)
(* the runtime guarantees: its timers fire and the executor polls a task   *)
(* that was woken.                                                         *)
FairInit ==
    /\ Init
    /\ config = [distance_unit |-> "Centimeters", temperature_unit |-> "Celsius"]

FairNext ==
    \/ \E readFail \in BOOLEAN : Call(Fin(2400), readFail, FALSE)
    \/ PollHold(FALSE)
    \/ PollRise
    \/ PollFall
    \/ EchoRise
    \/ EchoFall
    \/ WaitFault
    \/ \E early \in {0, 1} : TimerRuns(early)
    \/ Delay

\* the executor polls the task
Poll ==
    \/ \E driveFail \in BOOLEAN : PollHold(driveFail)
    \/ PollRise
    \/ PollFall

FairSpec ==
    /\ FairInit
    /\ [][FairNext]_vars
    /\ WF_vars(TimerRuns(0))
    /\ WF_vars(Poll)

-----------------------------------------------------------------------------
(* Properties of measure() *)

Done == task.pc = "done"
Waiting == task.pc \in {"hold", "rise_wait", "fall_wait"}
IsPrefix(s, t) == Len(s) <= Len(t) /\ SubSeq(t, 1, Len(s)) = s
Count(step) == Cardinality({i \in 1..Len(task.steps) : task.steps[i] = step})
Errors == {ERR_ECHO_HIGH, ERR_RISE_TIMEOUT, ERR_FALL_TIMEOUT}

(* C1: if the echo line reads high when measure is called, the call        *)
(* returns Err("Echo pin is already high") and has done nothing but the    *)
(* check: the trigger line is not driven (no set_high, no set_low, its     *)
(* level is the one before the call), no pulse hold is started and         *)
(* neither echo wait is started.                                           *)
C1_EchoHighRejected ==
    /\ (task.pc \notin {"idle", "panicked"} /\ task.echoAtCall) =>
          /\ Done
          /\ task.result = Err(ERR_ECHO_HIGH)
          /\ task.steps = <<"check">>
          /\ task.holdDeadline = NoTime
          /\ task.riseBegan = NoTime
          /\ task.fallBegan = NoTime
    /\ (task.pc = "idle" /\ echo) =>
          \A temperature \in Temperatures, driveFail \in BOOLEAN :
             /\ CallStep(temperature, FALSE, driveFail).trigger = trigger
             /\ CallStep(temperature, FALSE, driveFail).task.result = Err(ERR_ECHO_HIGH)

C1_Witness ==
    Done /\ task.echoAtCall /\ task.result = Err(ERR_ECHO_HIGH)

(* C2: under fairness (the timers fire, a woken task is polled) a call     *)
(* that is suspended at the pulse hold, the rise wait or the fall wait     *)
(* eventually returns, whatever the echo line does.                        *)
C2_EveryWaitEnds == Waiting ~> Done

C2_Witness ==
    Done /\ task.result = Err(ERR_FALL_TIMEOUT) /\ echo /\ task.fallSeenAt = NoTime

(* C3, as claimed: when the rise wait is over and the echo line was not    *)
(* high at any instant of the 2 seconds after it began, the last included, *)
(* the call has                                                            *)
(* returned Err("Timeout waiting for echo pin to go high"), the fall wait  *)
(* was not started and no distance was calculated.                         *)
C3_RiseTimeoutIfNoRise ==
    (/\ task.riseBegan # NoTime
     /\ task.pc # "rise_wait"
     /\ task.riseSeenAt = NoTime \/ task.riseSeenAt > task.riseDeadline
     /\ (IF task.start # NoTime THEN task.start ELSE task.returnedAt) >= task.riseDeadline)
    => /\ Done
       /\ task.result = Err(ERR_RISE_TIMEOUT)
       /\ task.fallBegan = NoTime
       /\ Count("fall_wait") = 0
       /\ Count("calc") = 0

(* C4, as claimed: when the fall wait is over and the echo line was not    *)
(* low at any instant of the 2 seconds after it began, the last included,  *)
(* the call has                                                            *)
(* returned Err("Timeout waiting for echo pin to go low"), which is        *)
(* neither of the other two errors, and no distance was calculated.        *)
C4_FallTimeoutIfNoFall ==
    (/\ task.fallBegan # NoTime
     /\ task.pc # "fall_wait"
     /\ task.fallSeenAt = NoTime \/ task.fallSeenAt > task.fallDeadline
     /\ task.returnedAt >= task.fallDeadline)
    => /\ Done
       /\ task.result = Err(ERR_FALL_TIMEOUT)
       /\ ERR_FALL_TIMEOUT \notin {ERR_ECHO_HIGH, ERR_RISE_TIMEOUT}
       /\ Count("calc") = 0

(* C5: the fall wait has a budget of its own, counted from the instant the *)
(* fall wait begins: however late the echo line rose, a fall less than 2   *)
(* seconds after the fall wait began gives Ok, and a fall timeout is       *)
(* returned only when the full 2 seconds have passed since the fall wait   *)
(* began.                                                                  *)
C5_IndependentTimeouts ==
    /\ task.fallBegan # NoTime =>
          task.fallDeadline = task.fallBegan + FALL_TIMEOUT_US
    /\ (/\ Done
        /\ task.fallBegan # NoTime
        /\ task.fallSeenAt # NoTime
        /\ task.fallSeenAt < task.fallBegan + FALL_TIMEOUT_US)
       => task.result.kind = "Ok"
    /\ (Done /\ task.result = Err(ERR_FALL_TIMEOUT)) =>
          task.returnedAt >= task.fallBegan + FALL_TIMEOUT_US

\* the echo line rose one microsecond before the rise timeout and fell one
\* microsecond before the fall timeout
C5_Witness ==
    /\ Done
    /\ task.result.kind = "Ok"
    /\ task.riseSeenAt = task.riseBegan + RISE_TIMEOUT_US - 1
    /\ task.fallSeenAt = task.fallBegan + FALL_TIMEOUT_US - 1

(* C6: the steps of a call are a prefix of: precondition check, set_high,  *)
(* 10 us hold, set_low, rise wait, fall wait, distance calculation.  A     *)
(* failure ends the call with the steps up to the failing one and nothing  *)
(* after it, and the distance is calculated only after both waits were     *)
(* completed, not timed out.                                               *)
C6_StepOrder ==
    /\ IsPrefix(task.steps, Order)
    /\ task.pc = "panicked" => task.steps = SubSeq(Order, 1, 1)
    /\ task.pc = "hold" => task.steps = SubSeq(Order, 1, 3)
    /\ task.pc = "rise_wait" => task.steps = SubSeq(Order, 1, 5)
    /\ task.pc = "fall_wait" => task.steps = SubSeq(Order, 1, 6)
    /\ Done =>
          CASE task.result = Err(ERR_ECHO_HIGH) -> task.steps = SubSeq(Order, 1, 1)
            [] task.result = Err(ERR_RISE_TIMEOUT) -> task.steps = SubSeq(Order, 1, 5)
            [] task.result = Err(ERR_FALL_TIMEOUT) -> task.steps = SubSeq(Order, 1, 6)
            [] OTHER -> task.result.kind = "Ok" /\ task.steps = Order
    /\ task.riseBegan # NoTime =>
          /\ task.holdDeadline # NoTime
          /\ task.riseBegan >= task.holdDeadline
    /\ Count("calc") > 0 =>
          /\ task.riseSeenAt # NoTime \/ task.riseErr
          /\ task.fallSeenAt # NoTime \/ task.fallErr

C6_Witness ==
    Done /\ task.result.kind = "Ok" /\ task.steps = Order

(* C7, as claimed: the duration converted into a distance is the time the  *)
(* echo line stayed high.  Stated for the calls in which no pin failed,    *)
(* the line rose during the rise wait and fell during the fall wait.       *)
C7_DurationIsHighTime ==
    (/\ Done
     /\ task.result.kind = "Ok"
     /\ ~task.riseErr /\ ~task.fallErr
     /\ task.riseSeenAt > task.riseBegan
     /\ task.fallSeenAt > task.fallBegan)
    => task.duration = task.fallSeenAt - task.riseSeenAt

(* C7, amended: the duration converted into a distance is the time from    *)
(* the resumption of measure after the rise wait (when the fall wait       *)
(* begins) to its resumption after the fall wait (when it returns); where  *)
(* the line rose during the rise wait and fell during the fall wait, it    *)
(* differs from the time the line stayed high by no more than the delay    *)
(* of a resumption.                                                        *)
C7_DurationIsResumeToResume ==
    (Done /\ task.result.kind = "Ok") =>
       /\ task.duration = task.returnedAt - task.fallBegan
       /\ task.start >= task.riseBegan
       /\ (/\ ~task.riseErr /\ ~task.fallErr
           /\ task.riseSeenAt > task.riseBegan
           /\ task.fallSeenAt > task.fallBegan)
          => /\ task.duration - (task.fallSeenAt - task.riseSeenAt) <= MaxLatency
             /\ (task.fallSeenAt - task.riseSeenAt) - task.duration <= MaxLatency

\* both resumptions were delayed, the first by more than the second
C7_Witness ==
    /\ Done
    /\ task.result.kind = "Ok"
    /\ ~task.riseErr /\ ~task.fallErr
    /\ task.riseSeenAt > task.riseBegan
    /\ task.fallSeenAt > task.fallBegan
    /\ task.start > task.riseSeenAt
    /\ task.duration < task.fallSeenAt - task.riseSeenAt

(* C8: a call never retries: the trigger is driven high at most once and   *)
(* low at most once, each wait is started at most once, and a failure is   *)
(* the result of the call in which it occurred: a call that ended without  *)
(* a fall wait after a rise wait returned the rise timeout, one that ended *)
(* without an end timestamp after a fall wait returned the fall timeout.   *)
C8_NoRetry ==
    /\ \A step \in {"check", "set_high", "hold", "set_low", "rise_wait", "fall_wait", "calc"} :
          Count(step) <= 1
    /\ (Done /\ task.riseBegan = NoTime) => task.result = Err(ERR_ECHO_HIGH)
    /\ (Done /\ task.riseBegan # NoTime /\ task.fallBegan = NoTime) =>
          task.result = Err(ERR_RISE_TIMEOUT)
    /\ (Done /\ task.fallBegan # NoTime /\ task.end = NoTime) =>
          task.result = Err(ERR_FALL_TIMEOUT)
    /\ (task.pc = "fall_wait" /\ FallOutcome(task) = "timeout") =>
          ContinueFall(task).pc = "done"
    /\ (task.pc = "rise_wait" /\ RiseOutcome(task) = "timeout") =>
          ContinueRise(task).pc = "done"

C8_Witness ==
    /\ Done
    /\ task.result = Err(ERR_FALL_TIMEOUT)
    /\ Count("set_high") = 1
    /\ Count("rise_wait") = 1
    /\ Count("fall_wait") = 1

(* C9: a failure of set_high or set_low is ignored: the task goes on the   *)
(* same way whether the drive call failed or not (so, step by step, for    *)
(* every behaviour of the echo line), and the only errors a call returns   *)
(* are the three of the echo line.                                         *)
C9_DriveFailureIgnored ==
    /\ task.pc = "idle" =>
          \A temperature \in Temperatures, readFail \in BOOLEAN :
             CallStep(temperature, readFail, TRUE).task
                = CallStep(temperature, readFail, FALSE).task
    /\ task.pc = "hold" => PollHoldStep(TRUE).task = PollHoldStep(FALSE).task
    /\ (Done /\ task.result.kind = "Err") => task.result.err \in Errors

\* set_low failed (the trigger line is still high) and the call returned Ok
C9_Witness ==
    Done /\ trigger /\ task.result.kind = "Ok"

\* speeds of sound: 0, 331.5 and 343.14 m/s, a negative one, and what
\* sqrt gives for a temperature that is infinite or below absolute zero
Speeds == {Fin(0), Fin(33150), Fin(34314), Fin(-34314), PosInf, NaN}

SpeedOfCall == speed_of_sound_temperature_adjusted(config, task.temperature)

(* C10, as claimed: a call that saw the echo line rise and fall and whose   *)
(* two timestamps are equal returns Ok(0), distance(speed, 0) being 0 for  *)
(* every speed of sound and both distance units.                           *)
C10_ZeroDurationZeroDistance ==
    (/\ Done
     /\ task.result.kind = "Ok"
     /\ ~task.riseErr /\ ~task.fallErr
     /\ task.duration = 0)
    =>
       /\ distance(config, SpeedOfCall, 0) = Fin(0)
       /\ task.result.value = Fin(0)

(* C10, amended: distance(speed, 0) is 0 for every finite speed of sound   *)
(* and both distance units, and NaN for a speed that is NaN or infinite;   *)
(* a call whose two timestamps are equal returns Ok(0) when the speed of   *)
(* sound for its temperature is finite, Ok(NaN) otherwise.                 *)
C10_ZeroDurationFiniteSpeed ==
    /\ \A cfg \in Config, speed \in Speeds :
          distance(cfg, speed, 0) = IF IsFin(speed) THEN Fin(0) ELSE NaN
    /\ (Done /\ task.result.kind = "Ok" /\ task.duration = 0) =>
          task.result.value = IF IsFin(SpeedOfCall) THEN Fin(0) ELSE NaN

C10_Witness ==
    /\ Done
    /\ task.result.kind = "Ok"
    /\ ~task.riseErr /\ ~task.fallErr
    /\ task.end = task.start
    /\ IsFin(SpeedOfCall)
    /\ task.result.value = Fin(0)

\* durations in microseconds: none, one tick, and the 5 ms and 10 ms of the
\* crate's tests
Durations == {0, 1, 5000, 10000}

\* the configuration with the other unit
WithDistanceUnit(cfg, unit) == [cfg EXCEPT !.distance_unit = unit]
WithTemperatureUnit(cfg, unit) == [cfg EXCEPT !.temperature_unit = unit]

(* C11: for every speed s and duration d the distance in Centimeters is    *)
(* (s * 100 * d) / 2 (in the model's units: s * d / 20000 hundredths of a  *)
(* centimeter, 171.57 cm for 343.14 m/s and 10 ms), the distance in Inches *)
(* is that value divided by 2.54, the temperature unit changes neither,    *)
(* and this is the value a call returns for its speed and its duration.    *)
(* The function is applied before each call.                               *)
C11_DistanceFormula ==
    /\ task.pc = "idle" => \A cfg \in Config, speed \in Speeds, d \in Durations :
          LET cm == distance(WithDistanceUnit(cfg, "Centimeters"), speed, d)
              inch == distance(WithDistanceUnit(cfg, "Inches"), speed, d)
          IN /\ (IsFin(speed) /\ speed[2] >= 0) =>
                   cm = Fin((speed[2] * d) \div 20000)
             /\ (IsFin(speed) /\ speed[2] < 0) =>
                   cm = Fin(-(((-speed[2]) * d) \div 20000))
             /\ IsNaN(speed) => IsNaN(cm)
             /\ IsInf(speed) => cm = (IF d = 0 THEN NaN ELSE speed)
             /\ (IsFin(cm) /\ cm[2] >= 0) =>
                   /\ IsFin(inch)
                   /\ 254 * inch[2] <= 100 * cm[2]
                   /\ 100 * cm[2] < 254 * (inch[2] + 1)
             /\ (IsFin(cm) /\ cm[2] < 0) =>
                   /\ IsFin(inch)
                   /\ 254 * (-inch[2]) <= 100 * (-cm[2])
                   /\ 100 * (-cm[2]) < 254 * ((-inch[2]) + 1)
             /\ ~IsFin(cm) => inch = cm
             /\ distance(WithTemperatureUnit(cfg, "Celsius"), speed, d)
                   = distance(WithTemperatureUnit(cfg, "Fahrenheit"), speed, d)
    /\ task.pc = "idle" => \A tu \in TemperatureUnit :
          /\ distance([distance_unit |-> "Centimeters", temperature_unit |-> tu],
                      Fin(34314), 10000) = Fin(17157)
          /\ distance([distance_unit |-> "Inches", temperature_unit |-> tu],
                      Fin(34314), 10000) = Fin(6754)
    /\ (Done /\ task.result.kind = "Ok") =>
          LET speed == SpeedOfCall
          IN /\ task.result.value = distance(config, speed, task.duration)
             /\ task.result.value
                   = distance(WithTemperatureUnit(config, "Celsius"), speed, task.duration)

C11_Witness ==
    /\ Done
    /\ task.result.kind = "Ok"
    /\ config.distance_unit = "Inches"
    /\ IsFin(task.result.value)
    /\ task.result.value[2] > 0
    /\ task.result.value[2]
          < distance(WithDistanceUnit(config, "Centimeters"), SpeedOfCall, task.duration)[2]

\* temperatures, in 1/100 degree: 32 and 68 Fahrenheit (0 and 20 Celsius),
\* those of the calls, 0, and the values that are not finite
TemperatureInputs == Temperatures \cup {Fin(3200), Fin(6800), Fin(0), NaN}

(* C12: with TemperatureUnit::Fahrenheit the speed of sound for T is the   *)
(* speed that TemperatureUnit::Celsius gives for (T - 32) * 5 / 9; 32      *)
(* Fahrenheit gives the speed of 0 Celsius, 331.5 m/s; the distance unit   *)
(* changes nothing; and a call configured in Fahrenheit returns the        *)
(* distance for that speed.  The functions are applied before each call.   *)
C12_FahrenheitIsConvertedCelsius ==
    /\ task.pc = "idle" => \A cfg \in Config, T \in TemperatureInputs :
          LET inF == speed_of_sound_temperature_adjusted(
                        WithTemperatureUnit(cfg, "Fahrenheit"), T)
              inC(x) == speed_of_sound_temperature_adjusted(
                           WithTemperatureUnit(cfg, "Celsius"), x)
          IN /\ IsFin(T) => inF = inC(Fin(((T[2] - 3200) * 5) \div 9))
             /\ ~IsFin(T) => inF = inC(T)
             /\ speed_of_sound_temperature_adjusted(WithDistanceUnit(cfg, "Centimeters"), T)
                   = speed_of_sound_temperature_adjusted(WithDistanceUnit(cfg, "Inches"), T)
    /\ task.pc = "idle" => \A du \in DistanceUnit :
          /\ speed_of_sound_temperature_adjusted(
                [distance_unit |-> du, temperature_unit |-> "Fahrenheit"], Fin(3200))
                = Fin(33150)
          /\ speed_of_sound_temperature_adjusted(
                [distance_unit |-> du, temperature_unit |-> "Celsius"], Fin(0))
                = Fin(33150)
    /\ (Done /\ task.result.kind = "Ok" /\ config.temperature_unit = "Fahrenheit"
           /\ IsFin(task.temperature)) =>
          task.result.value
             = distance(config,
                        speed_of_sound_temperature_adjusted(
                           WithTemperatureUnit(config, "Celsius"),
                           Fin(((task.temperature[2] - 3200) * 5) \div 9)),
                        task.duration)

C12_Witness ==
    /\ Done
    /\ task.result.kind = "Ok"
    /\ config.temperature_unit = "Fahrenheit"
    /\ task.temperature = Fin(2400)
    /\ IsFin(task.result.value)
    /\ task.result.value[2] > 0
    /\ SpeedOfCall # speed_of_sound_temperature_adjusted(
                         WithTemperatureUnit(config, "Celsius"), task.temperature)

\* a speed of sound that is not negative
NonNegative(x) == Leq(Fin(0), x)

(* C13, as claimed: for both distance units and every speed of sound that  *)
(* is not negative, the distance is non-decreasing in the duration and in  *)
(* the speed: the distance a call returns is not less than the distance    *)
(* for a shorter duration at its speed, nor than the distance for a lower  *)
(* non-negative speed at its duration.  Stated for the calls in which no   *)
(* pin failed and the two timestamps differ.                               *)
C13_Monotone ==
    (/\ Done
     /\ task.result.kind = "Ok"
     /\ ~task.riseErr /\ ~task.fallErr
     /\ task.duration > 0
     /\ NonNegative(SpeedOfCall)) =>
       /\ \A d \in Durations :
             d <= task.duration =>
                Leq(distance(config, SpeedOfCall, d), task.result.value)
       /\ \A s \in Speeds :
             (NonNegative(s) /\ Leq(s, SpeedOfCall)) =>
                Leq(distance(config, s, task.duration), task.result.value)

(* C13, amended: the distance is non-decreasing in the duration and in the *)
(* speed of sound for every finite speed that is not negative, and for an  *)
(* infinite speed as long as the durations are positive; for an infinite   *)
(* speed and a duration of zero the distance is NaN, which is neither      *)
(* less nor more than any distance.  The function is applied before each   *)
(* call, and to the speed and duration of each call that returns Ok.       *)
C13_MonotoneFiniteSpeed ==
    /\ task.pc = "idle" =>
          \A cfg \in Config, s1 \in Speeds, s2 \in Speeds, d1 \in Durations, d2 \in Durations :
             /\ (IsFin(s1) /\ s1[2] >= 0 /\ d1 <= d2) =>
                   Leq(distance(cfg, s1, d1), distance(cfg, s1, d2))
             /\ (IsFin(s1) /\ IsFin(s2) /\ 0 <= s1[2] /\ s1[2] <= s2[2]) =>
                   Leq(distance(cfg, s1, d1), distance(cfg, s2, d1))
             /\ (s1 = PosInf /\ 0 < d1 /\ d1 <= d2) =>
                   Leq(distance(cfg, s1, d1), distance(cfg, s1, d2))
             /\ (IsFin(s1) /\ s1[2] >= 0 /\ s2 = PosInf /\ 0 < d1) =>
                   Leq(distance(cfg, s1, d1), distance(cfg, s2, d1))
             /\ s1 = PosInf => IsNaN(distance(cfg, s1, 0))
    /\ (Done /\ task.result.kind = "Ok") =>
          LET speed == SpeedOfCall
          IN (IsFin(speed) /\ speed[2] >= 0) =>
                /\ \A d \in Durations :
                      d <= task.duration =>
                         Leq(distance(config, speed, d), task.result.value)
                /\ \A s \in Speeds :
                      (IsFin(s) /\ 0 <= s[2] /\ s[2] <= speed[2]) =>
                         Leq(distance(config, s, task.duration), task.result.value)

\* a call measured more than 10 ms and returns more than the distance for
\* 10 ms at its speed
C13_Witness ==
    /\ Done
    /\ task.result.kind = "Ok"
    /\ IsFin(SpeedOfCall)
    /\ SpeedOfCall[2] > 34314
    /\ task.duration > 10000
    /\ IsFin(task.result.value)
    /\ task.result.value[2] > distance(config, SpeedOfCall, 10000)[2]
    /\ task.result.value[2] > distance(config, Fin(34314), task.duration)[2]

(* C14, as claimed: the call goes on to the fall wait only when the echo   *)
(* line made a low-to-high transition during the rise wait; a line that    *)
(* was high already when the rise wait began does not complete it.  Stated *)
(* for the calls in which the pin's wait did not fail.                     *)
C14_RiseWaitNeedsEdge ==
    (task.fallBegan # NoTime /\ ~task.riseErr) => task.riseBy = "edge"

(* C14, amended: the rise wait is a wait for the level, not for the edge.  *)
(* The call goes on to the fall wait only when the echo line was high at   *)
(* an instant of the rise wait, its first included, or when the pin's wait *)
(* failed; a line that is high already when the rise wait begins (it rose  *)
(* during the pulse hold) completes the rise wait at once, in the poll     *)
(* that began it: the start timestamp is the instant the wait began and    *)
(* the fall wait begins at that instant.                                   *)
C14_RiseWaitIsLevel ==
    /\ task.fallBegan # NoTime =>
          \/ task.riseBy \in {"level", "edge"}
          \/ task.riseErr
    /\ (task.riseBy = "none") = (task.riseSeenAt = NoTime)
    /\ task.riseBy = "edge" => task.riseSeenAt >= task.riseBegan
    /\ task.riseBy = "level" =>
          /\ task.riseSeenAt = task.riseBegan
          /\ task.start = task.riseBegan
          /\ task.fallBegan = task.riseBegan
          /\ task.pc \in {"fall_wait", "done"}
    /\ (task.pc = "hold" /\ now >= task.holdDeadline) =>
          \A driveFail \in BOOLEAN :
             /\ echo => /\ PollHoldStep(driveFail).task.riseBy = "level"
                        /\ PollHoldStep(driveFail).task.pc = "fall_wait"
             /\ ~echo => /\ PollHoldStep(driveFail).task.riseBy = "none"
                         /\ PollHoldStep(driveFail).task.pc = "rise_wait"

\* the line was low at the precondition check and high when the rise wait
\* began: the call is in the fall wait without having been suspended
C14_Witness ==
    /\ task.pc = "fall_wait"
    /\ ~task.echoAtCall
    /\ task.riseBy = "level"
    /\ ~task.riseErr
    /\ echo

(* C15: a call that returned Ok made exactly one rise wait and then        *)
(* exactly one fall wait; its start timestamp was taken when the rise wait *)
(* was over and not after the fall wait began, its end timestamp when the  *)
(* fall wait was over (the instant the call returned), and the duration it *)
(* converted is end minus start.  While the call is in the fall wait the   *)
(* start timestamp is taken and the end timestamp is not.                  *)
C15_OneRiseThenOneFall ==
    /\ (Done /\ task.result.kind = "Ok") =>
          /\ Count("rise_wait") = 1
          /\ Count("fall_wait") = 1
          /\ SubSeq(task.steps, 5, 7) = <<"rise_wait", "fall_wait", "calc">>
          /\ task.riseBegan # NoTime
          /\ task.riseSeenAt # NoTime \/ task.riseErr
          /\ task.riseBegan <= task.start
          /\ task.riseSeenAt # NoTime => task.riseSeenAt <= task.start
          /\ task.start <= task.fallBegan
          /\ task.fallSeenAt # NoTime \/ task.fallErr
          /\ task.fallBegan <= task.end
          /\ task.fallSeenAt # NoTime => task.fallSeenAt <= task.end
          /\ task.end = task.returnedAt
          /\ task.duration = task.end - task.start
    /\ task.pc = "fall_wait" => (task.start # NoTime /\ task.end = NoTime)
    /\ task.pc = "rise_wait" => (task.start = NoTime /\ task.end = NoTime)

\* the echo line rose during the rise wait and fell during the fall wait,
\* each some time after the wait began
C15_Witness ==
    /\ Done
    /\ task.result.kind = "Ok"
    /\ ~task.riseErr /\ ~task.fallErr
    /\ task.start > task.riseBegan
    /\ task.end > task.fallBegan
    /\ task.fallSeenAt > task.fallBegan
    /\ task.duration = task.end - task.start

(* C16, as claimed: in a call that returned Ok the end timestamp is not    *)
(* earlier than the start timestamp, the duration is not negative, and the *)
(* distance returned is not negative whenever the speed of sound is not    *)
(* negative.  Stated for the calls in which no pin failed.                 *)
C16_NonNegative ==
    (Done /\ task.result.kind = "Ok" /\ ~task.riseErr /\ ~task.fallErr) =>
       /\ task.end >= task.start
       /\ task.duration >= 0
       /\ NonNegative(SpeedOfCall) => Leq(Fin(0), task.result.value)

(* C16, amended: in a call that returned Ok the end timestamp is not       *)
(* earlier than the start timestamp and the duration is not negative; the  *)
(* distance returned is not negative when the speed of sound is finite and *)
(* not negative, or infinite with a positive duration; for an infinite     *)
(* speed and equal timestamps the distance returned is NaN.                *)
C16_NonNegativeFiniteSpeed ==
    (Done /\ task.result.kind = "Ok") =>
       LET speed == SpeedOfCall
       IN /\ task.end >= task.start
          /\ task.duration >= 0
          /\ (IsFin(speed) /\ speed[2] >= 0) =>
                (IsFin(task.result.value) /\ task.result.value[2] >= 0)
          /\ (speed = PosInf /\ task.duration > 0) => task.result.value = PosInf
          /\ (speed = PosInf /\ task.duration = 0) => IsNaN(task.result.value)

C16_Witness ==
    /\ Done
    /\ task.result.kind = "Ok"
    /\ ~task.riseErr /\ ~task.fallErr
    /\ task.end > task.start
    /\ IsFin(SpeedOfCall)
    /\ SpeedOfCall[2] > 0
    /\ task.result.value[2] > 0

CallBegins ==
    (task.pc = "idle" /\ task'.pc # "idle") =>
       /\ task'.steps[1] = "check"
       /\ task'.echoAtCall = echo
       /\ (task'.pc # "panicked" /\ echo) =>
             /\ task'.result = Err(ERR_ECHO_HIGH)
             /\ task'.steps = <<"check">>
             /\ task'.pc = "done"
             /\ trigger' = trigger
       /\ (task'.pc # "panicked" /\ ~echo) =>
             /\ task'.pc = "hold"
             /\ task'.steps = <<"check", "set_high", "hold">>
             /\ task'.holdDeadline = now + HOLD_US
             /\ task'.result = NoResult

\* the result of a call that returned, from what happened in that call:
\* the level read at the check, the waits it began, its two timestamps
ResultOfCall ==
    Done =>
       /\ (task.result = Err(ERR_ECHO_HIGH)) = task.echoAtCall
       /\ (task.result = Err(ERR_RISE_TIMEOUT))
             = (task.riseBegan # NoTime /\ task.fallBegan = NoTime)
       /\ (task.result = Err(ERR_FALL_TIMEOUT))
             = (task.fallBegan # NoTime /\ task.end = NoTime)
       /\ (task.result.kind = "Ok") = (task.end # NoTime)
       /\ task.result.kind = "Ok" =>
             task.result.value = distance(config, SpeedOfCall, task.end - task.start)

(* C18: measure keeps no state between calls and never changes the         *)
(* configuration.  No step changes config; between two calls nothing of    *)
(* the previous call is left in the future; every call begins with the     *)
(* precondition check, whose outcome follows from the level of the echo    *)
(* line at the call alone (a high line gives the precondition error        *)
(* without a pulse, however the previous call ended); and the result of a  *)
(* call follows from its temperature and from what the echo line did       *)
(* during that call.                                                       *)
C18_NoStateBetweenCalls ==
    /\ [][config' = config]_vars
    /\ [][CallBegins]_vars
    /\ [](task.pc = "idle" => task = NewTask(Fin(0)))
    /\ []ResultOfCall

\* the previous call returned the fall timeout, the echo line is high at
\* the next call, which returns the precondition error without a pulse
C18_Witness ==
    /\ calls = 2
    /\ last = Outcome(Err(ERR_FALL_TIMEOUT))
    /\ Done
    /\ task.echoAtCall
    /\ task.result = Err(ERR_ECHO_HIGH)
    /\ task.steps = <<"check">>
    /\ ~trigger

(* C19, as claimed: a call returns Ok only if the echo line was observed   *)
(* high during its rise wait and then low during its fall wait; a wait     *)
(* that ended with a pin error does not lead to Ok.                        *)
C19_OkOnlyIfObserved ==
    (Done /\ task.result.kind = "Ok") =>
       /\ task.riseSeenAt # NoTime
       /\ task.fallSeenAt # NoTime
       /\ task.riseSeenAt <= task.start
       /\ task.fallSeenAt <= task.end

(* C20, as claimed: a call ends by returning Ok or one of the three        *)
(* errors; it never unwinds, whatever the pins do, a failing read of the   *)
(* echo level at the precondition check included.                          *)
C20_NeverPanics ==
    /\ task.pc # "panicked"
    /\ Done => \/ task.result.kind = "Ok"
               \/ task.result.kind = "Err" /\ task.result.err \in Errors

====
